---- MODULE Spec2Model ----
(***************************************************************************)
(* The request/response pipeline of the ZeroEntropy client: construction   *)
(* (ClientBuilder::build, Client::new, Client::from_env), the retry loop   *)
(* of Client::post, the retry policy (should_retry,                        *)
(* calculate_retry_delay), the response resolver (handle_response) and     *)
(* the status table (Error::from_status).                                  *)
(***************************************************************************)
EXTENDS Integers, Sequences, FiniteSets, TLC

VARIABLES
    env,              \* the process environment: the two variables build reads
    builder,          \* the ClientBuilder under construction
    client,           \* the constructed Client, or NoClient
    build_result,     \* how construction was asked for and how it ended
    http_clients,     \* number of reqwest clients built so far
    overflow_checks,  \* the build profile: TRUE = overflow checks on (debug)
    pc,               \* position of the logical call inside post
    url,              \* post's local: base_url followed by the endpoint
    body,             \* post's parameter: the serialized request body
    attempts,         \* post's local retry counter
    request,          \* the request of the current attempt, or NoRequest
    response,         \* status of the response being handled, or NoResponse
    resp_body,        \* the body read from the finalized response, or NoBody
    outcome,          \* what post returned, or NoOutcome
    requests_sent,    \* HTTP requests sent by the current logical call
    delays,           \* the backoff sleeps of the current logical call, in order
    retryable_only,   \* every response of this call so far had a status of
                      \*   408, 409, 429 or 500..599
    responses_seen,   \* results of send().await this call has observed
    sleeps_done,      \* backoff sleeps of this call that have elapsed
    facade,           \* the resource facade the current call came through
    calls,            \* logical calls started on this client
    tasks,            \* the logical calls running concurrently on the client
    fn,               \* policy functions applied in isolation: the function,
    arg,              \*   its argument
    ret               \*   and its result

vars == <<env, builder, client, build_result, http_clients, overflow_checks,
          pc, url, body, attempts, request, response, resp_body, outcome,
          requests_sent, delays, retryable_only, responses_seen, sleeps_done,
          facade, calls, tasks, fn, arg, ret>>

buildVars == <<env, builder, client, build_result, http_clients>>
callVars  == <<pc, url, body, attempts, request, response, resp_body, outcome,
               requests_sent, delays, retryable_only, responses_seen,
               sleeps_done, facade, calls>>
fnVars    == <<fn, arg, ret>>
concVars  == <<tasks>>

----------------------------------------------------------------------------
(* Bounds of the model                                                     *)

\* small retry budgets a caller configures: 0..MaxRetriesSmall
MaxRetriesSmall == 2
\* one large retry budget, past the point where 500 * 2^(n-1) leaves 64 bits
MaxRetriesLarge == 65
\* logical calls made one after the other on one client
MaxCalls == 2
\* largest status code given to the policy functions in isolation
MaxStatus == 999
\* largest attempt number given to calculate_retry_delay in isolation
MaxAttemptNumber == 70

----------------------------------------------------------------------------
(* Program constants                                                       *)

DEFAULT_BASE_URL == "https://api.zeroentropy.dev/v1"
DEFAULT_TIMEOUT == 60
DEFAULT_MAX_RETRIES == 2

\* Option<T>
None == [some |-> FALSE]
Some(x) == [some |-> TRUE, v |-> x]
NoClient == [present |-> FALSE]
NoRequest == [present |-> FALSE]
NoResponse == [present |-> FALSE]
NoOutcome == [tag |-> "none"]
NoBody == [present |-> FALSE]

----------------------------------------------------------------------------
(* 64-bit unsigned arithmetic, as four 16-bit limbs, least significant     *)
(* first, so that every intermediate value stays below 2^31.               *)

Limb == 65536

RECURSIVE Pow2Small(_)
Pow2Small(e) == IF e = 0 THEN 1 ELSE 2 * Pow2Small(e - 1)

U64Zero == <<0, 0, 0, 0>>

\* 2_u64.pow(exp): the value modulo 2^64 and whether it left 64 bits
u64_pow2(exp) ==
    IF exp >= 64
    THEN [overflow |-> TRUE, val |-> U64Zero]
    ELSE [overflow |-> FALSE,
          val |-> [i \in 1..4 |-> IF i = (exp \div 16) + 1
                                  THEN Pow2Small(exp % 16) ELSE 0]]

\* k * x for a small k: the product modulo 2^64 and whether it left 64 bits
u64_mul_small(k, x) ==
    LET t1 == k * x[1]
        t2 == k * x[2] + (t1 \div Limb)
        t3 == k * x[3] + (t2 \div Limb)
        t4 == k * x[4] + (t3 \div Limb)
    IN  [overflow |-> (t4 \div Limb) > 0,
         val |-> <<t1 % Limb, t2 % Limb, t3 % Limb, t4 % Limb>>]

\* x.min(m) for m below 2^16, as a plain number
u64_min_small(x, m) ==
    IF x[2] = 0 /\ x[3] = 0 /\ x[4] = 0 /\ x[1] < m THEN x[1] ELSE m

----------------------------------------------------------------------------
(* Retry policy                                                            *)

\* mutant: 404 is retried too
should_retry_also_404(status) ==
    status \in {404, 408, 409, 429} \/ status >= 500

should_retry(status) ==
    status \in {408, 409, 429} \/ status >= 500

\* mutant: the exponent is the attempt number itself
calculate_retry_delay_off_by_one(attempt, checks) ==
    LET p == u64_pow2(attempt)
        d == u64_mul_small(500, p.val)
    IN  IF checks /\ (p.overflow \/ d.overflow)
        THEN [panic |-> TRUE, ms |-> 0]
        ELSE [panic |-> FALSE, ms |-> u64_min_small(d.val, 8000)]

\* calculate_retry_delay(attempt) under a build with (checks) or without
\* overflow checks: whether it panics, and the delay in milliseconds
calculate_retry_delay(attempt, checks) ==
    LET base_delay == 500
        max_delay == 8000
        underflow == attempt < 1
        \* attempt - 1 in u32: wraps to 2^32 - 1, an exponent of 64 or more
        exp == IF underflow THEN 64 ELSE attempt - 1
        p == u64_pow2(exp)
        d == u64_mul_small(base_delay, p.val)
    IN  IF checks /\ (underflow \/ p.overflow \/ d.overflow)
        THEN [panic |-> TRUE, ms |-> 0]
        ELSE [panic |-> FALSE, ms |-> u64_min_small(d.val, max_delay)]

\* mutant: the budget test admits one retry too many
retry_condition_off_by_one(n, max_retries, status) ==
    n <= max_retries /\ should_retry(status)

\* mutant: the budget test gives up one retry early
retry_condition_gives_up_early(n, max_retries, status) ==
    n + 1 < max_retries /\ should_retry(status)

\* the condition of the retry branch in post
retry_condition(n, max_retries, status) ==
    n < max_retries /\ should_retry(status)

----------------------------------------------------------------------------
(* Status table                                                            *)

\* mutant: the server-error arm is open-ended, like should_retry's test
from_status_open_range(status, message) ==
    IF status = 400 THEN [kind |-> "BadRequest", message |-> message]
    ELSE IF status = 401 THEN [kind |-> "AuthenticationError", message |-> message]
    ELSE IF status = 403 THEN [kind |-> "PermissionDenied", message |-> message]
    ELSE IF status = 404 THEN [kind |-> "NotFound", message |-> message]
    ELSE IF status = 409 THEN [kind |-> "Conflict", message |-> message]
    ELSE IF status = 422 THEN [kind |-> "UnprocessableEntity", message |-> message]
    ELSE IF status = 429 THEN [kind |-> "RateLimitExceeded", message |-> message]
    ELSE IF status >= 500 THEN [kind |-> "InternalServerError", message |-> message]
    ELSE [kind |-> "Api", status |-> status, message |-> message]

\* Error::from_status: the match arms in order
from_status(status, message) ==
    IF status = 400 THEN [kind |-> "BadRequest", message |-> message]
    ELSE IF status = 401 THEN [kind |-> "AuthenticationError", message |-> message]
    ELSE IF status = 403 THEN [kind |-> "PermissionDenied", message |-> message]
    ELSE IF status = 404 THEN [kind |-> "NotFound", message |-> message]
    ELSE IF status = 409 THEN [kind |-> "Conflict", message |-> message]
    ELSE IF status = 422 THEN [kind |-> "UnprocessableEntity", message |-> message]
    ELSE IF status = 429 THEN [kind |-> "RateLimitExceeded", message |-> message]
    ELSE IF status \in 500..599 THEN [kind |-> "InternalServerError", message |-> message]
    ELSE [kind |-> "Api", status |-> status, message |-> message]

----------------------------------------------------------------------------
(* Response resolver                                                       *)

\* StatusCode::is_success
is_success(status) == status >= 200 /\ status < 300

\* body texts a server answers with
MsgNotFound == "{\"message\":\"Collection not found\"}"
MsgNumber   == "{\"message\":42}"
NoMsgObject == "{\"error\":\"quota exceeded\"}"
JsonString  == "\"gateway down\""
PlainText   == "upstream connect error"
EmptyText   == ""
OkResults   == "{\"results\":[]}"
UnknownErrorText == "Unknown error"

BodyTexts == {MsgNotFound, MsgNumber, NoMsgObject,
              JsonString, PlainText, EmptyText, OkResults}

\* what reading the body gives: its text, or a failure of the read
Bodies == [readable : {TRUE}, text : BodyTexts] \cup {[readable |-> FALSE, text |-> ""]}

\* serde_json::from_str::<Value> on the texts above and on the placeholder
JsonStr(s)  == [t |-> "string", s |-> s]
JsonObj(f)  == [t |-> "object", fields |-> f]
ParseErr    == [ok |-> FALSE]
Parsed(v)   == [ok |-> TRUE, v |-> v]
from_str(text) ==
    CASE text = MsgNotFound -> Parsed(JsonObj([message |-> JsonStr("Collection not found")]))
      [] text = MsgNumber   -> Parsed(JsonObj([message |-> [t |-> "number"]]))
      [] text = NoMsgObject -> Parsed(JsonObj([error |-> JsonStr("quota exceeded")]))
      [] text = OkResults   -> Parsed(JsonObj([results |-> [t |-> "array"]]))
      [] text = JsonString  -> Parsed(JsonStr("gateway down"))
      [] OTHER              -> ParseErr

\* v.get("message").and_then(|m| m.as_str()): Some(string) or None
get_message_str(v) ==
    IF v.t = "object" /\ "message" \in DOMAIN v.fields /\ v.fields.message.t = "string"
    THEN [some |-> TRUE, s |-> v.fields.message.s]
    ELSE [some |-> FALSE]

\* mutant: the raw rb text is used even when the body carries a message
error_message_raw_only(rb) ==
    IF rb.readable THEN rb.text ELSE UnknownErrorText

\* the message handle_response gives the typed error
error_message(rb) ==
    LET error_text == IF rb.readable THEN rb.text ELSE UnknownErrorText
        parsed == from_str(error_text)
        m == IF parsed.ok THEN get_message_str(parsed.v) ELSE [some |-> FALSE]
    IN  IF m.some THEN m.s ELSE error_text

\* response.json::<R>() for a result shape R with one required field, results
json_decodes(rb) ==
    /\ rb.readable
    /\ LET parsed == from_str(rb.text)
       IN  parsed.ok /\ parsed.v.t = "object" /\ "results" \in DOMAIN parsed.v.fields

\* handle_response: the value post returns for a finalized response
handle_response(status, rb) ==
    IF is_success(status)
    THEN IF json_decodes(rb)
         THEN [tag |-> "Ok", value |-> rb.text]
         ELSE [tag |-> "Err",
               error |-> [kind |-> "Http",
                          inner |-> IF rb.readable THEN "decode" ELSE "rb"]]
    ELSE [tag |-> "Err", error |-> from_status(status, error_message(rb))]

----------------------------------------------------------------------------
(* Construction                                                            *)

\* an environment variable: absent, present but not unicode, or set to a string
EnvAbsent == [state |-> "absent"]
EnvNotUnicode == [state |-> "not_unicode"]
EnvSet(s) == [state |-> "set", value |-> s]

\* std::env::var(name).ok()
env_var_ok(v) == IF v.state = "set" THEN Some(v.value) ELSE None

\* ClientBuilder::default()
BuilderDefault ==
    [api_key |-> None, base_url |-> None, timeout |-> None, max_retries |-> None]

\* mutant: a missing key falls back to the empty string
resolve_api_key_or_empty(b, e) ==
    IF b.api_key.some THEN b.api_key
    ELSE IF env_var_ok(e.ZEROENTROPY_API_KEY).some THEN env_var_ok(e.ZEROENTROPY_API_KEY)
    ELSE Some("")

\* self.api_key.or_else(|| env::var("ZEROENTROPY_API_KEY").ok())
resolve_api_key(b, e) ==
    IF b.api_key.some THEN b.api_key ELSE env_var_ok(e.ZEROENTROPY_API_KEY)

\* mutant: the environment variable wins over the explicit base_url
resolve_base_url_env_first(b, e) ==
    IF env_var_ok(e.ZEROENTROPY_BASE_URL).some THEN env_var_ok(e.ZEROENTROPY_BASE_URL).v
    ELSE IF b.base_url.some THEN b.base_url.v
    ELSE DEFAULT_BASE_URL

\* self.base_url.or_else(|| env::var("ZEROENTROPY_BASE_URL").ok()).unwrap_or(DEFAULT)
resolve_base_url(b, e) ==
    IF b.base_url.some THEN b.base_url.v
    ELSE IF env_var_ok(e.ZEROENTROPY_BASE_URL).some THEN env_var_ok(e.ZEROENTROPY_BASE_URL).v
    ELSE DEFAULT_BASE_URL

\* ClientBuilder::build on builder b in environment e; http_ok: whether
\* reqwest's builder succeeds. Gives the result, the client and the number
\* of reqwest clients it asked for.
build(b, e, http_ok) ==
    LET api_key == resolve_api_key(b, e)
        base_url == resolve_base_url(b, e)
        timeout == IF b.timeout.some THEN b.timeout.v ELSE DEFAULT_TIMEOUT
        max_retries == IF b.max_retries.some THEN b.max_retries.v ELSE DEFAULT_MAX_RETRIES
    IN  IF ~api_key.some
        THEN [result |-> "InvalidApiKey", client |-> NoClient, http |-> 0]
        ELSE IF ~http_ok
        THEN [result |-> "Http", client |-> NoClient, http |-> 1]
        ELSE [result |-> "Ok", http |-> 1,
              client |-> [present |-> TRUE, api_key |-> api_key.v,
                          base_url |-> base_url, timeout |-> timeout,
                          max_retries |-> max_retries]]

\* Client::new(api_key)
new(api_key, e, http_ok) ==
    build([BuilderDefault EXCEPT !.api_key = Some(api_key)], e, http_ok)

\* Client::from_env()
from_env(e, http_ok) ==
    IF env_var_ok(e.ZEROENTROPY_API_KEY).some
    THEN new(env_var_ok(e.ZEROENTROPY_API_KEY).v, e, http_ok)
    ELSE [result |-> "InvalidApiKey", client |-> NoClient, http |-> 0]

\* inputs of construction
ApiKeys == {"", "explicit-key"}
EnvApiKeys == {EnvAbsent, EnvNotUnicode, EnvSet(""), EnvSet("env-key")}
BaseUrls == {"http://localhost:8080"}
EnvBaseUrls == {EnvAbsent, EnvSet("https://staging.example/v1")}
Timeouts == {30}
SmallBudgets == 0..MaxRetriesSmall
RetryBudgets == SmallBudgets \cup {MaxRetriesLarge}

NotBuilt == [via |-> "none", explicit_key |-> FALSE, result |-> "none"]

\* the builder's setters
SetApiKey(k) ==
    /\ build_result = NotBuilt
    /\ builder' = [builder EXCEPT !.api_key = Some(k)]
    /\ UNCHANGED <<env, client, build_result, http_clients, overflow_checks>>
    /\ UNCHANGED <<callVars, fnVars, concVars>>

SetBaseUrl(u) ==
    /\ build_result = NotBuilt
    /\ builder' = [builder EXCEPT !.base_url = Some(u)]
    /\ UNCHANGED <<env, client, build_result, http_clients, overflow_checks>>
    /\ UNCHANGED <<callVars, fnVars, concVars>>

SetTimeout(t) ==
    /\ build_result = NotBuilt
    /\ builder' = [builder EXCEPT !.timeout = Some(t)]
    /\ UNCHANGED <<env, client, build_result, http_clients, overflow_checks>>
    /\ UNCHANGED <<callVars, fnVars, concVars>>

SetMaxRetries(n) ==
    /\ build_result = NotBuilt
    /\ builder' = [builder EXCEPT !.max_retries = Some(n)]
    /\ UNCHANGED <<env, client, build_result, http_clients, overflow_checks>>
    /\ UNCHANGED <<callVars, fnVars, concVars>>

\* the effect of a constructor that returned r; the process constructs one
\* client, so a builder still in progress is dropped
Constructed(via, explicit_key, r) ==
    /\ build_result' = [via |-> via, explicit_key |-> explicit_key, result |-> r.result]
    /\ client' = r.client
    /\ http_clients' = http_clients + r.http
    /\ builder' = BuilderDefault
    /\ UNCHANGED <<env, overflow_checks>>
    /\ UNCHANGED <<callVars, fnVars, concVars>>

Build(http_ok) ==
    /\ build_result = NotBuilt
    /\ Constructed("build", builder.api_key.some, build(builder, env, http_ok))

New(k, http_ok) ==
    /\ build_result = NotBuilt
    /\ Constructed("new", TRUE, new(k, env, http_ok))

FromEnv(http_ok) ==
    /\ build_result = NotBuilt
    /\ Constructed("from_env", FALSE, from_env(env, http_ok))

----------------------------------------------------------------------------
(* One logical call: Client::post                                          *)

Endpoints == {"/collections/add-collection", "/documents/delete-document",
              "/queries/top-documents", "/models/rerank"}

\* the facade an endpoint is called through: client.collections(), ...
resource_of(endpoint) ==
    CASE endpoint = "/collections/add-collection" -> "collections"
      [] endpoint = "/documents/delete-document" -> "documents"
      [] endpoint = "/queries/top-documents"     -> "queries"
      [] endpoint = "/models/rerank"             -> "models"
NoFacade == [present |-> FALSE]
RequestBodies == {"{\"collection_name\":\"c\"}"}
ResponseStatuses == {200, 204, 400, 401, 403, 404, 408, 409, 422, 429,
                     500, 599, 600}
TransportFailures == {"connect", "timeout"}
\* history only: the statuses documented as retryable (408, 409, 429, 5xx),
\* which retryable_only records for the statements about such responses
RetryableStatuses == {408, 409, 429} \cup (500..599)

\* mutant: the endpoint is appended to the client's own base_url
client_base_url_extended(c, endpoint) ==
    [c EXCEPT !.base_url = @ \o endpoint]

\* the client after post(&self, endpoint, ..): a shared borrow, url is a local
client_after_post(c, endpoint) == c

\* mutant: the counter of the previous call is kept
attempts_not_reset == attempts

\* let mut attempts = 0
initial_attempts == 0

\* mutant: the sleep future is created but not awaited
backoff_not_awaited == "send"

\* tokio::time::sleep(delay).await: the call is suspended in its backoff
backoff_pc == "sleep"

\* the Err(reqwest::Error) of send().await, and the Error::Http made of it
send_failed(kind) == [present |-> FALSE, error |-> kind]
transport_error(kind) == [kind |-> "Http", inner |-> kind]

\* a facade of the endpoint's resource is created on the client and its
\* operation enters post: url is formatted and attempts starts at 0
Post(endpoint, b) ==
    /\ client.present
    /\ pc \in {"idle", "done", "panicked"}
    /\ calls < MaxCalls
    /\ calls' = calls + 1
    /\ url' = client.base_url \o endpoint
    /\ body' = b
    /\ facade' = [present |-> TRUE, resource |-> resource_of(endpoint)]
    /\ client' = client_after_post(client, endpoint)
    /\ attempts' = initial_attempts
    /\ pc' = "send"
    /\ request' = NoRequest
    /\ response' = NoResponse
    /\ resp_body' = NoBody
    /\ outcome' = NoOutcome
    /\ requests_sent' = 0
    /\ delays' = <<>>
    /\ retryable_only' = TRUE
    /\ responses_seen' = 0
    /\ sleeps_done' = 0
    /\ UNCHANGED <<env, builder, build_result, http_clients>>
    /\ UNCHANGED <<overflow_checks, fnVars, concVars>>

\* mutant: the body is consumed by the first attempt, retries send none
build_request_body_once(c, u, b, n) ==
    [present |-> TRUE, method |-> "POST", url |-> u,
     authorization |-> "Bearer " \o c.api_key,
     content_type |-> "application/json",
     body |-> IF n = 0 THEN b ELSE ""]

\* http_client.post(&url).header(..).header(..).json(body), built anew in
\* iteration n of the loop from the locals and the client's fields
build_request(c, u, b, n) ==
    [present |-> TRUE, method |-> "POST", url |-> u,
     authorization |-> "Bearer " \o c.api_key,
     content_type |-> "application/json", body |-> b]

\* the request of one loop iteration is built and sent
Send ==
    /\ pc = "send"
    /\ request' = build_request(client, url, body, requests_sent)
    /\ requests_sent' = requests_sent + 1
    /\ pc' = "await_response"
    /\ UNCHANGED <<url, body, attempts, response, resp_body, outcome, delays,
                   retryable_only, responses_seen, sleeps_done, facade, calls>>
    /\ UNCHANGED <<buildVars, overflow_checks, fnVars, concVars>>

\* mutant: a transport failure is retried like a retryable status
TransportError_retried(kind) ==
    /\ pc = "await_response"
    /\ response' = send_failed(kind)
    /\ responses_seen' = responses_seen + 1
    /\ IF attempts < client.max_retries
       THEN /\ attempts' = attempts + 1
            /\ pc' = "send"
            /\ outcome' = outcome
       ELSE /\ attempts' = attempts
            /\ pc' = "done"
            /\ outcome' = [tag |-> "Err", error |-> transport_error(kind)]
    /\ UNCHANGED <<url, body, request, resp_body, requests_sent,
                   delays, retryable_only, sleeps_done, facade, calls>>
    /\ UNCHANGED <<buildVars, overflow_checks, fnVars, concVars>>

\* send().await fails: the ? operator returns the transport error
TransportError(kind) ==
    /\ pc = "await_response"
    /\ response' = send_failed(kind)
    /\ responses_seen' = responses_seen + 1
    /\ outcome' = [tag |-> "Err", error |-> transport_error(kind)]
    /\ pc' = "done"
    /\ UNCHANGED <<url, body, attempts, request, resp_body, requests_sent,
                   delays, retryable_only, sleeps_done, facade, calls>>
    /\ UNCHANGED <<buildVars, overflow_checks, fnVars, concVars>>

\* send().await gives a response with this status: the retry test, the
\* increment and the delay computation, up to the sleep or to handle_response
Respond(status) ==
    /\ pc = "await_response"
    /\ response' = [present |-> TRUE, status |-> status]
    /\ responses_seen' = responses_seen + 1
    /\ retryable_only' = (retryable_only /\ status \in RetryableStatuses)
    /\ IF retry_condition(attempts, client.max_retries, status)
       THEN LET delay == calculate_retry_delay(attempts + 1, overflow_checks)
            IN  /\ attempts' = attempts + 1
                /\ IF delay.panic
                   THEN /\ pc' = "panicked"
                        /\ outcome' = [tag |-> "panic"]
                        /\ delays' = delays
                   ELSE /\ pc' = backoff_pc
                        /\ outcome' = outcome
                        /\ delays' = Append(delays, delay.ms)
       ELSE /\ pc' = "read_body"
            /\ UNCHANGED <<attempts, outcome, delays>>
    /\ UNCHANGED <<url, body, request, resp_body, requests_sent, sleeps_done,
                   facade, calls>>
    /\ UNCHANGED <<buildVars, overflow_checks, fnVars, concVars>>

\* the backoff sleep elapses and the loop continues
Wake ==
    /\ pc = "sleep"
    /\ pc' = "send"
    /\ response' = NoResponse
    /\ sleeps_done' = sleeps_done + 1
    /\ UNCHANGED <<url, body, attempts, request, resp_body, outcome,
                   requests_sent, delays, retryable_only, responses_seen,
                   facade, calls>>
    /\ UNCHANGED <<buildVars, overflow_checks, fnVars, concVars>>

\* handle_response reads the body b and post returns
Resolve(b) ==
    /\ pc = "read_body"
    /\ resp_body' = [present |-> TRUE, readable |-> b.readable, text |-> b.text]
    /\ outcome' = handle_response(response.status, b)
    /\ pc' = "done"
    /\ UNCHANGED <<url, body, attempts, request, response, requests_sent,
                   delays, retryable_only, responses_seen, sleeps_done,
                   facade, calls>>
    /\ UNCHANGED <<buildVars, overflow_checks, fnVars, concVars>>

CallNext ==
    \/ \E e \in Endpoints, b \in RequestBodies : Post(e, b)
    \/ Send
    \/ \E k \in TransportFailures : TransportError(k)
    \/ \E s \in ResponseStatuses : Respond(s)
    \/ Wake
    \/ \E b \in Bodies : Resolve(b)

CallIdle ==
    /\ pc = "idle"
    /\ url = ""
    /\ body = ""
    /\ attempts = 0
    /\ request = NoRequest
    /\ response = NoResponse
    /\ resp_body = NoBody
    /\ outcome = NoOutcome
    /\ requests_sent = 0
    /\ delays = <<>>
    /\ retryable_only = TRUE
    /\ responses_seen = 0
    /\ sleeps_done = 0
    /\ facade = NoFacade
    /\ calls = 0

FnIdle ==
    /\ fn = "none"
    /\ arg = [none |-> TRUE]
    /\ ret = [none |-> TRUE]

----------------------------------------------------------------------------
(* Logical calls running concurrently on one client: each is a future of   *)
(* post with its own url, body and attempts; they share &self only.        *)

TaskIds == {"t1", "t2"}
ConcEndpoints == {"/collections/add-collection", "/queries/top-documents"}
ConcStatuses == {200, 404, 429, 500}
ConcFailures == {"connect"}
ConcBodies == {[readable |-> TRUE, text |-> OkResults],
               [readable |-> TRUE, text |-> MsgNotFound]}

TaskIdle ==
    [pc |-> "idle", url |-> "", body |-> "", attempts |-> 0, requests_sent |-> 0,
     delays |-> <<>>, response |-> NoResponse, outcome |-> NoOutcome, hist |-> <<>>]

RECURSIVE SumAttempts(_, _)
SumAttempts(ts, ids) ==
    IF ids = {} THEN 0
    ELSE LET i == CHOOSE x \in ids : TRUE
         IN  ts[i].attempts + SumAttempts(ts, ids \ {i})

\* mutant: the counter is kept in the shared client, one for all calls
task_attempts_shared(ts, i) == SumAttempts(ts, TaskIds)

\* the attempts the retry test of call i reads: its own local
task_attempts(ts, i) == ts[i].attempts

\* mutant: the delay is computed from a client-wide retry count
task_retry_delay_client_wide(ts, i, checks) ==
    calculate_retry_delay(SumAttempts(ts, TaskIds) + 1, checks)

\* attempts += 1; calculate_retry_delay(attempts), on the local of call i
task_retry_delay(ts, i, checks) ==
    calculate_retry_delay(ts[i].attempts + 1, checks)

TPost(i, endpoint, b) ==
    /\ client.present
    /\ tasks[i].pc = "idle"
    /\ tasks' = [tasks EXCEPT ![i] =
                   [TaskIdle EXCEPT !.pc = "send",
                                    !.url = client.base_url \o endpoint,
                                    !.body = b]]
    /\ UNCHANGED <<buildVars, overflow_checks, callVars, fnVars>>

TSend(i) ==
    /\ tasks[i].pc = "send"
    /\ tasks' = [tasks EXCEPT ![i].pc = "await_response",
                              ![i].requests_sent = @ + 1]
    /\ UNCHANGED <<buildVars, overflow_checks, callVars, fnVars>>

TFail(i, kind) ==
    /\ tasks[i].pc = "await_response"
    /\ tasks' = [tasks EXCEPT ![i].pc = "done",
                              ![i].response = send_failed(kind),
                              ![i].outcome = [tag |-> "Err", error |-> transport_error(kind)],
                              ![i].hist = Append(@, [failure |-> kind])]
    /\ UNCHANGED <<buildVars, overflow_checks, callVars, fnVars>>

TRespond(i, status) ==
    /\ tasks[i].pc = "await_response"
    /\ LET t == [tasks[i] EXCEPT !.response = [present |-> TRUE, status |-> status],
                                 !.hist = Append(@, [status |-> status])]
       IN  IF retry_condition(task_attempts(tasks, i), client.max_retries, status)
           THEN LET delay == task_retry_delay(tasks, i, overflow_checks)
                IN  IF delay.panic
                    THEN tasks' = [tasks EXCEPT ![i] =
                                     [t EXCEPT !.attempts = @ + 1, !.pc = "panicked",
                                               !.outcome = [tag |-> "panic"]]]
                    ELSE tasks' = [tasks EXCEPT ![i] =
                                     [t EXCEPT !.attempts = @ + 1, !.pc = backoff_pc,
                                               !.delays = Append(@, delay.ms)]]
           ELSE tasks' = [tasks EXCEPT ![i] = [t EXCEPT !.pc = "read_body"]]
    /\ UNCHANGED <<buildVars, overflow_checks, callVars, fnVars>>

TWake(i) ==
    /\ tasks[i].pc = "sleep"
    /\ tasks' = [tasks EXCEPT ![i].pc = "send", ![i].response = NoResponse]
    /\ UNCHANGED <<buildVars, overflow_checks, callVars, fnVars>>

TResolve(i, b) ==
    /\ tasks[i].pc = "read_body"
    /\ tasks' = [tasks EXCEPT ![i].pc = "done",
                              ![i].outcome = handle_response(tasks[i].response.status, b),
                              ![i].hist = Append(@, [body |-> b])]
    /\ UNCHANGED <<buildVars, overflow_checks, callVars, fnVars>>

TasksIdle == tasks = [i \in TaskIds |-> TaskIdle]

----------------------------------------------------------------------------
(* Spec: the pipeline of a constructed client.  Init is the state after    *)
(* Client::builder().api_key(k).max_retries(m).build() succeeded in an     *)
(* empty environment.                                                      *)

EmptyEnv == [ZEROENTROPY_API_KEY |-> EnvAbsent, ZEROENTROPY_BASE_URL |-> EnvAbsent]

Init ==
    /\ env = EmptyEnv
    /\ builder = BuilderDefault
    /\ overflow_checks \in BOOLEAN
    /\ \E m \in RetryBudgets :
         LET b == [BuilderDefault EXCEPT !.api_key = Some("explicit-key"),
                                         !.max_retries = Some(m)]
             r == build(b, env, TRUE)
         IN  /\ client = r.client
             /\ build_result = [via |-> "build", explicit_key |-> TRUE, result |-> r.result]
             /\ http_clients = r.http
    /\ CallIdle
    /\ TasksIdle
    /\ FnIdle

Next == CallNext

Spec == Init /\ [][Next]_vars

\* the same pipeline when the runtime keeps polling the future of post and
\* every await completes: the request is sent, send().await returns a
\* response or an error, the sleep elapses, the body is read
CallProgress ==
    /\ WF_vars(Send)
    /\ WF_vars((\E k \in TransportFailures : TransportError(k))
                  \/ (\E s \in ResponseStatuses : Respond(s)))
    /\ WF_vars(Wake)
    /\ WF_vars(\E b \in Bodies : Resolve(b))

SpecLive == Init /\ [][Next]_vars /\ CallProgress

----------------------------------------------------------------------------
(* SpecBuild: construction, from a process that has built nothing yet,     *)
(* followed by calls on the client when construction succeeded.            *)

InitBuild ==
    /\ env \in [ZEROENTROPY_API_KEY : EnvApiKeys, ZEROENTROPY_BASE_URL : EnvBaseUrls]
    /\ builder = BuilderDefault
    /\ client = NoClient
    /\ build_result = NotBuilt
    /\ http_clients = 0
    /\ overflow_checks \in BOOLEAN
    /\ CallIdle
    /\ TasksIdle
    /\ FnIdle

NextBuild ==
    \/ \E k \in ApiKeys : SetApiKey(k)
    \/ \E u \in BaseUrls : SetBaseUrl(u)
    \/ \E t \in Timeouts : SetTimeout(t)
    \/ \E n \in SmallBudgets : SetMaxRetries(n)
    \/ \E ok \in BOOLEAN : Build(ok)
    \/ \E k \in ApiKeys, ok \in BOOLEAN : New(k, ok)
    \/ \E ok \in BOOLEAN : FromEnv(ok)
    \/ CallNext

SpecBuild == InitBuild /\ [][NextBuild]_vars

----------------------------------------------------------------------------
(* SpecConc: two logical calls issued concurrently on one constructed      *)
(* client, their steps interleaved in every order.                         *)

InitConc ==
    /\ env = EmptyEnv
    /\ builder = BuilderDefault
    /\ overflow_checks \in BOOLEAN
    /\ \E m \in SmallBudgets :
         LET b == [BuilderDefault EXCEPT !.api_key = Some("explicit-key"),
                                         !.max_retries = Some(m)]
             r == build(b, env, TRUE)
         IN  /\ client = r.client
             /\ build_result = [via |-> "build", explicit_key |-> TRUE, result |-> r.result]
             /\ http_clients = r.http
    /\ CallIdle
    /\ TasksIdle
    /\ FnIdle

NextConc ==
    \E i \in TaskIds :
        \/ \E e \in ConcEndpoints, b \in RequestBodies : TPost(i, e, b)
        \/ TSend(i)
        \/ \E k \in ConcFailures : TFail(i, k)
        \/ \E st \in ConcStatuses : TRespond(i, st)
        \/ TWake(i)
        \/ \E b \in ConcBodies : TResolve(i, b)

SpecConc == InitConc /\ [][NextConc]_vars

----------------------------------------------------------------------------
(* The facade operations: the arguments each takes, the Request struct it   *)
(* fills and the JSON object serde writes for it.                           *)

FacadeOps ==
    {"collections.add", "collections.delete", "collections.get_list",
     "documents.add", "documents.add_text", "documents.add_pdf",
     "documents.add_pdf_file", "documents.update", "documents.delete",
     "documents.get_info", "documents.get_info_list", "documents.get_page_info",
     "queries.top_documents", "queries.top_pages", "queries.top_snippets",
     "models.rerank"}

\* the parameters of an operation that are not Option<_>
RequiredParams(op) ==
    CASE op \in {"collections.add", "collections.delete"} -> {"collection_name"}
      [] op = "collections.get_list" -> {}
      [] op = "documents.add" -> {"collection_name", "path", "content"}
      [] op = "documents.add_text" -> {"collection_name", "path", "text"}
      [] op = "documents.add_pdf" -> {"collection_name", "path", "base64_data"}
      [] op = "documents.add_pdf_file" -> {"collection_name", "document_path", "file_path"}
      [] op \in {"documents.update", "documents.delete", "documents.get_info"} ->
            {"collection_name", "path"}
      [] op = "documents.get_info_list" -> {"collection_name"}
      [] op = "documents.get_page_info" -> {"collection_name", "path", "page_number"}
      [] op \in {"queries.top_documents", "queries.top_pages", "queries.top_snippets"} ->
            {"collection_name", "query", "k"}
      [] op = "models.rerank" -> {"query", "documents"}

\* the parameters of an operation that are Option<_>
OptionalParams(op) ==
    CASE op = "documents.add" -> {"metadata", "overwrite"}
      [] op \in {"documents.add_text", "documents.add_pdf", "documents.add_pdf_file"} ->
            {"metadata"}
      [] op = "documents.update" -> {"metadata", "index_status"}
      [] op \in {"documents.get_info", "documents.get_page_info"} -> {"include_content"}
      [] op = "documents.get_info_list" -> {"limit", "path_gt"}
      [] op = "queries.top_documents" ->
            {"filter", "include_metadata", "latency_mode", "reranker"}
      [] op = "queries.top_pages" -> {"filter", "include_content", "latency_mode"}
      [] op = "queries.top_snippets" ->
            {"filter", "include_document_metadata", "precise_responses", "reranker"}
      [] op = "models.rerank" -> {"model_id", "top_k"}
      [] OTHER -> {}

\* the JSON text serde_json writes for a value given for parameter p
ArgJson(p) ==
    CASE p \in {"overwrite", "include_content", "include_metadata",
                "include_document_metadata", "precise_responses"} -> "true"
      [] p \in {"k", "limit", "top_k", "page_number"} -> "10"
      [] p = "metadata" -> "{\"tags\":[\"a\",\"b\"]}"
      [] p = "filter" -> "{\"year\":2024}"
      [] p = "latency_mode" -> "\"low\""
      [] p = "index_status" -> "\"parsing_failed\""
      [] p = "content" -> "{\"type\":\"text\",\"text\":\"x\"}"
      [] p = "documents" -> "[{\"id\":\"d\",\"text\":\"x\"}]"
      [] OTHER -> "\"x\""

\* the arguments of a call of op in which the optional ones of supplied
\* are Some(_) and the others None
Arguments(op, supplied) ==
    [p \in RequiredParams(op) \cup OptionalParams(op) |->
        IF p \in RequiredParams(op) \/ supplied[p] THEN Some(ArgJson(p)) ELSE None]

\* a field of a #[derive(Serialize)] struct Request, with or without
\* #[serde(skip_serializing_if = "Option::is_none")], and the value moved into it
Field(name, skip, value) ==
    [name |-> name, skip_if_none |-> skip, value |-> value]

\* the operation whose Request struct a convenience method ends up filling
delegate(op) ==
    IF op \in {"documents.add_text", "documents.add_pdf", "documents.add_pdf_file"}
    THEN "documents.add" ELSE op

\* let body = Request { .. } of each operation, from its arguments a
RequestStruct(op, a) ==
    CASE op \in {"collections.add", "collections.delete"} ->
            {Field("collection_name", FALSE, a.collection_name)}
      [] op = "collections.get_list" -> {}
      [] op = "documents.add" ->
            {Field("collection_name", FALSE, a.collection_name),
             Field("path", FALSE, a.path),
             Field("content", FALSE, a.content),
             Field("metadata", TRUE, a.metadata),
             Field("overwrite", TRUE, a.overwrite)}
      [] op = "documents.add_text" ->
            {Field("collection_name", FALSE, a.collection_name),
             Field("path", FALSE, a.path),
             Field("content", FALSE, Some("{\"type\":\"text\",\"text\":\"x\"}")),
             Field("metadata", TRUE, a.metadata),
             Field("overwrite", TRUE, None)}
      [] op = "documents.add_pdf" ->
            {Field("collection_name", FALSE, a.collection_name),
             Field("path", FALSE, a.path),
             Field("content", FALSE, Some("{\"type\":\"auto\",\"base64_data\":\"x\"}")),
             Field("metadata", TRUE, a.metadata),
             Field("overwrite", TRUE, None)}
      [] op = "documents.add_pdf_file" ->
            {Field("collection_name", FALSE, a.collection_name),
             Field("path", FALSE, a.document_path),
             Field("content", FALSE, Some("{\"type\":\"auto\",\"base64_data\":\"eA==\"}")),
             Field("metadata", TRUE, a.metadata),
             Field("overwrite", TRUE, None)}
      [] op = "documents.update" ->
            {Field("collection_name", FALSE, a.collection_name),
             Field("path", FALSE, a.path),
             Field("metadata", TRUE, a.metadata),
             Field("index_status", TRUE, a.index_status)}
      [] op = "documents.delete" ->
            {Field("collection_name", FALSE, a.collection_name),
             Field("path", FALSE, a.path)}
      [] op = "documents.get_info" ->
            {Field("collection_name", FALSE, a.collection_name),
             Field("path", FALSE, a.path),
             Field("include_content", TRUE, a.include_content)}
      [] op = "documents.get_info_list" ->
            {Field("collection_name", FALSE, a.collection_name),
             Field("limit", TRUE, a.limit),
             Field("path_gt", TRUE, a.path_gt)}
      [] op = "documents.get_page_info" ->
            {Field("collection_name", FALSE, a.collection_name),
             Field("path", FALSE, a.path),
             Field("page_number", FALSE, a.page_number),
             Field("include_content", TRUE, a.include_content)}
      [] op = "queries.top_documents" ->
            {Field("collection_name", FALSE, a.collection_name),
             Field("query", FALSE, a.query),
             Field("k", FALSE, a.k),
             Field("filter", TRUE, a.filter),
             Field("include_metadata", TRUE, a.include_metadata),
             Field("latency_mode", TRUE, a.latency_mode),
             Field("reranker", TRUE, a.reranker)}
      [] op = "queries.top_pages" ->
            {Field("collection_name", FALSE, a.collection_name),
             Field("query", FALSE, a.query),
             Field("k", FALSE, a.k),
             Field("filter", TRUE, a.filter),
             Field("include_content", TRUE, a.include_content),
             Field("latency_mode", TRUE, a.latency_mode)}
      [] op = "queries.top_snippets" ->
            {Field("collection_name", FALSE, a.collection_name),
             Field("query", FALSE, a.query),
             Field("k", FALSE, a.k),
             Field("filter", TRUE, a.filter),
             Field("include_document_metadata", TRUE, a.include_document_metadata),
             Field("precise_responses", TRUE, a.precise_responses),
             Field("reranker", TRUE, a.reranker)}
      [] op = "models.rerank" ->
            {Field("query", FALSE, a.query),
             Field("documents", FALSE, a.documents),
             Field("model_id", TRUE, a.model_id),
             Field("top_k", TRUE, a.top_k)}

\* mutant: the field has no skip_serializing_if, so None is written as null
serialize_field_always(f) ==
    {[key |-> f.name, value |-> IF f.value.some THEN f.value.v ELSE "null"]}

\* serde's derived Serialize for one field: skipped when the attribute is
\* there and the value is None, else written (None as null)
serialize_field(f) ==
    IF f.skip_if_none /\ ~f.value.some THEN {}
    ELSE {[key |-> f.name, value |-> IF f.value.some THEN f.value.v ELSE "null"]}

\* the JSON object written for a Request: its members as key/value pairs
to_json_object(fields) == UNION {serialize_field(f) : f \in fields}

\* the endpoint each operation posts its body to
endpoint_of(op) ==
    CASE delegate(op) = "collections.add" -> "/collections/add-collection"
      [] delegate(op) = "collections.delete" -> "/collections/delete-collection"
      [] delegate(op) = "collections.get_list" -> "/collections/get-collection-list"
      [] delegate(op) = "documents.add" -> "/documents/add-document"
      [] delegate(op) = "documents.update" -> "/documents/update-document"
      [] delegate(op) = "documents.delete" -> "/documents/delete-document"
      [] delegate(op) = "documents.get_info" -> "/documents/get-document-info"
      [] delegate(op) = "documents.get_info_list" -> "/documents/get-document-info-list"
      [] delegate(op) = "documents.get_page_info" -> "/documents/get-page-info"
      [] delegate(op) = "queries.top_documents" -> "/queries/top-documents"
      [] delegate(op) = "queries.top_pages" -> "/queries/top-pages"
      [] delegate(op) = "queries.top_snippets" -> "/queries/top-snippets"
      [] delegate(op) = "models.rerank" -> "/models/rerank"

\* a facade operation up to its call of client.post: the endpoint and the
\* body handed over, or the io error of add_pdf_file's tokio::fs::read
facade_request(op, a, file_ok) ==
    IF op = "documents.add_pdf_file" /\ ~file_ok
    THEN [posted |-> FALSE, error |-> [kind |-> "Io"]]
    ELSE [posted |-> TRUE, endpoint |-> endpoint_of(op),
          body |-> to_json_object(RequestStruct(op, a))]

----------------------------------------------------------------------------
(* The wire types: what serde's derived Serialize writes and what its       *)
(* derived Deserialize reads, for the types of types.rs.                    *)

JsonS(s) == [str |-> s]
JsonA(items) == [arr |-> items]
JsonO(members) == [obj |-> members]
IsStr(j) == DOMAIN j = {"str"}
IsArr(j) == DOMAIN j = {"arr"}
IsObj(j) == DOMAIN j = {"obj"}
HasMember(j, k) == \E m \in j.obj : m.key = k
Member(j, k) == (CHOOSE m \in j.obj : m.key = k).value

De(v) == [ok |-> TRUE, value |-> v]
DeErr(e) == [ok |-> FALSE, error |-> e]

\* the traits each shape derives
Derives(shape) ==
    CASE shape \in {"DocumentContent", "MetadataValue", "Metadata",
                    "LatencyMode", "IndexStatus"} -> {"Serialize", "Deserialize"}
      [] shape \in {"RerankDocument", "Request"} -> {"Serialize"}
      [] shape \in {"CollectionResponse", "RerankResult"} -> {"Deserialize"}

Variants(shape) ==
    CASE shape = "DocumentContent" -> {"Text", "Auto"}
      [] shape = "MetadataValue" -> {"String", "Array"}
      [] shape = "LatencyMode" -> {"Low", "High"}
      [] shape = "IndexStatus" ->
            {"NotParsed", "NotIndexed", "Parsing", "ParsingFailed",
             "Indexing", "IndexingFailed", "Indexed"}

\* #[serde(rename_all = "lowercase")] and "snake_case" on a variant's name
rename_lowercase(ident) ==
    CASE ident = "Text" -> "text"
      [] ident = "Auto" -> "auto"
      [] ident = "Low" -> "low"
      [] ident = "High" -> "high"

rename_snake_case(ident) ==
    CASE ident = "NotParsed" -> "not_parsed"
      [] ident = "NotIndexed" -> "not_indexed"
      [] ident = "Parsing" -> "parsing"
      [] ident = "ParsingFailed" -> "parsing_failed"
      [] ident = "Indexing" -> "indexing"
      [] ident = "IndexingFailed" -> "indexing_failed"
      [] ident = "Indexed" -> "indexed"

\* the name a variant is written under
ser_name(shape, ident) ==
    IF shape = "IndexStatus" THEN rename_snake_case(ident) ELSE rename_lowercase(ident)

\* mutant: the rename applies to serialization only, names are read as declared
de_name_as_declared(shape, ident) == ident

\* the name a variant is read from
de_name(shape, ident) ==
    IF shape = "IndexStatus" THEN rename_snake_case(ident) ELSE rename_lowercase(ident)

to_json_MetadataValue(v) ==
    IF v.variant = "String" THEN JsonS(v.s)
    ELSE JsonA([i \in 1..Len(v.items) |-> JsonS(v.items[i])])

\* #[serde(untagged)]: the variants are tried in declaration order
from_json_MetadataValue(j) ==
    IF IsStr(j) THEN De([variant |-> "String", s |-> j.str])
    ELSE IF IsArr(j) /\ \A i \in 1..Len(j.arr) : IsStr(j.arr[i])
    THEN De([variant |-> "Array", items |-> [i \in 1..Len(j.arr) |-> j.arr[i].str]])
    ELSE DeErr("data did not match any variant of untagged enum MetadataValue")

\* serde_json::to_value of a value of the shape
to_json(shape, v) ==
    CASE shape = "DocumentContent" ->
            JsonO({[key |-> "type", value |-> JsonS(ser_name(shape, v.variant))]}
                  \cup (IF v.variant = "Text"
                        THEN {[key |-> "text", value |-> JsonS(v.text)]}
                        ELSE {[key |-> "base64_data", value |-> JsonS(v.base64_data)]}))
      [] shape = "MetadataValue" -> to_json_MetadataValue(v)
      [] shape = "Metadata" ->
            JsonO({[key |-> e.key, value |-> to_json_MetadataValue(e.value)]
                     : e \in v.entries})
      [] shape \in {"LatencyMode", "IndexStatus"} -> JsonS(ser_name(shape, v.variant))
      [] shape = "RerankDocument" ->
            JsonO({[key |-> "id", value |-> JsonS(v.id)],
                   [key |-> "text", value |-> JsonS(v.text)]})

\* serde_json::from_value against the shape
from_json(shape, j) ==
    CASE shape = "DocumentContent" ->
            IF ~IsObj(j) \/ ~HasMember(j, "type") \/ ~IsStr(Member(j, "type"))
            THEN DeErr("missing field type")
            ELSE LET tag == Member(j, "type").str
                     named == {x \in Variants(shape) : de_name(shape, x) = tag}
                 IN  IF named = {} THEN DeErr("unknown variant")
                     ELSE IF named = {"Text"}
                     THEN IF HasMember(j, "text") /\ IsStr(Member(j, "text"))
                          THEN De([variant |-> "Text", text |-> Member(j, "text").str])
                          ELSE DeErr("missing field text")
                     ELSE IF HasMember(j, "base64_data") /\ IsStr(Member(j, "base64_data"))
                          THEN De([variant |-> "Auto",
                                   base64_data |-> Member(j, "base64_data").str])
                          ELSE DeErr("missing field base64_data")
      [] shape = "MetadataValue" -> from_json_MetadataValue(j)
      [] shape = "Metadata" ->
            IF ~IsObj(j) THEN DeErr("invalid type")
            ELSE IF \E m \in j.obj : ~from_json_MetadataValue(m.value).ok
            THEN DeErr("data did not match any variant of untagged enum MetadataValue")
            ELSE De([entries |->
                       {[key |-> m.key, value |-> from_json_MetadataValue(m.value).value]
                          : m \in j.obj}])
      [] shape \in {"LatencyMode", "IndexStatus"} ->
            IF ~IsStr(j) THEN DeErr("invalid type")
            ELSE LET named == {x \in Variants(shape) : de_name(shape, x) = j.str}
                 IN  IF named = {} THEN DeErr("unknown variant")
                     ELSE De([variant |-> CHOOSE x \in named : TRUE])
      [] shape = "CollectionResponse" ->
            IF IsObj(j) /\ HasMember(j, "message") /\ IsStr(Member(j, "message"))
            THEN De([message |-> Member(j, "message").str])
            ELSE DeErr("missing field message")

\* a value written and read back against its own shape, where the shape
\* implements both directions
NoImpl(trait) == [ok |-> FALSE, not_implemented |-> trait]
round_trip(shape, v) ==
    IF "Serialize" \notin Derives(shape) THEN NoImpl("Serialize")
    ELSE IF "Deserialize" \notin Derives(shape) THEN NoImpl("Deserialize")
    ELSE from_json(shape, to_json(shape, v))

Texts == {"", "Test content"}
StringLists == {<<>>, <<"a">>, <<"a", "b">>}
MetadataValues ==
    {[variant |-> "String", s |-> t] : t \in Texts}
      \cup {[variant |-> "Array", items |-> l] : l \in StringLists}
WireValues ==
    {[shape |-> "DocumentContent", value |-> [variant |-> "Text", text |-> t]] : t \in Texts}
      \cup {[shape |-> "DocumentContent",
             value |-> [variant |-> "Auto", base64_data |-> t]] : t \in Texts}
      \cup {[shape |-> "MetadataValue", value |-> mv] : mv \in MetadataValues}
      \cup {[shape |-> "Metadata", value |-> [entries |-> {}]],
            [shape |-> "Metadata",
             value |-> [entries |->
                         {[key |-> "category",
                           value |-> [variant |-> "String", s |-> "test"]],
                          [key |-> "tags",
                           value |-> [variant |-> "Array",
                                      items |-> <<"rust", "sdk">>]]}]]}
      \cup {[shape |-> sh, value |-> [variant |-> x]] :
               sh \in {"LatencyMode"}, x \in {"Low", "High"}}
      \cup {[shape |-> "IndexStatus", value |-> [variant |-> x]] :
               x \in Variants("IndexStatus")}
      \cup {[shape |-> "RerankDocument", value |-> [id |-> "doc1", text |-> "Rust"]],
            [shape |-> "CollectionResponse", value |-> [message |-> "ok"]]}

----------------------------------------------------------------------------
(* SpecWire: the facade operations and the wire types applied to inputs    *)
(* drawn from their domains.                                               *)

FacadeCalls ==
    UNION {{[op |-> op, supplied |-> f, file_ok |-> ok] :
              f \in [OptionalParams(op) -> BOOLEAN],
              ok \in (IF op = "documents.add_pdf_file" THEN BOOLEAN ELSE {TRUE})}
             : op \in FacadeOps}

InitWire ==
    /\ env = EmptyEnv
    /\ builder = BuilderDefault
    /\ client = NoClient
    /\ build_result = NotBuilt
    /\ http_clients = 0
    /\ overflow_checks = TRUE
    /\ CallIdle
    /\ TasksIdle
    /\ fn = "none"
    /\ ret = [none |-> TRUE]
    /\ arg \in FacadeCalls \cup WireValues

ApplyFacadeRequest ==
    /\ fn = "none"
    /\ arg \in FacadeCalls
    /\ fn' = "facade_request"
    /\ ret' = facade_request(arg.op, Arguments(arg.op, arg.supplied), arg.file_ok)
    /\ UNCHANGED <<arg, buildVars, overflow_checks, callVars, concVars>>

ApplyRoundTrip ==
    /\ fn = "none"
    /\ arg \in WireValues
    /\ fn' = "round_trip"
    /\ ret' = round_trip(arg.shape, arg.value)
    /\ UNCHANGED <<arg, buildVars, overflow_checks, callVars, concVars>>

NextWire ==
    \/ ApplyFacadeRequest
    \/ ApplyRoundTrip

SpecWire == InitWire /\ [][NextWire]_vars

----------------------------------------------------------------------------
(* SpecPolicy: the pure functions of the pipeline applied to inputs drawn  *)
(* from their whole domains.                                               *)

Messages == {"", "Collection not found", PlainText}

InitPolicy ==
    /\ env = EmptyEnv
    /\ builder = BuilderDefault
    /\ client = NoClient
    /\ build_result = NotBuilt
    /\ http_clients = 0
    /\ overflow_checks \in BOOLEAN
    /\ CallIdle
    /\ TasksIdle
    /\ fn = "none"
    /\ ret = [none |-> TRUE]
    /\ arg \in [status : 0..MaxStatus, message : Messages, attempt : {0}]
            \cup [status : {0}, message : {""}, attempt : 0..MaxAttemptNumber]

ApplyShouldRetry ==
    /\ fn = "none"
    /\ arg.attempt = 0 /\ arg.message = ""
    /\ fn' = "should_retry"
    /\ ret' = [bool |-> should_retry(arg.status)]
    /\ UNCHANGED <<arg, buildVars, overflow_checks, callVars, concVars>>

ApplyFromStatus ==
    /\ fn = "none"
    /\ arg.attempt = 0
    /\ fn' = "from_status"
    /\ ret' = [error |-> from_status(arg.status, arg.message)]
    /\ UNCHANGED <<arg, buildVars, overflow_checks, callVars, concVars>>

ApplyCalculateRetryDelay ==
    /\ fn = "none"
    /\ arg.attempt >= 1
    /\ fn' = "calculate_retry_delay"
    /\ ret' = calculate_retry_delay(arg.attempt, overflow_checks)
    /\ UNCHANGED <<arg, buildVars, overflow_checks, callVars, concVars>>

NextPolicy ==
    \/ ApplyShouldRetry
    \/ ApplyFromStatus
    \/ ApplyCalculateRetryDelay

SpecPolicy == InitPolicy /\ [][NextPolicy]_vars

----------------------------------------------------------------------------
(* Claims                                                                  *)

\* C1: should_retry(status) is true exactly for 408, 409, 429 and 500..599,
\* and false for every other status, those of 600 and above included.
C1_ShouldRetryTable ==
    fn = "should_retry" =>
        (ret.bool <=> arg.status \in ({408, 409, 429} \cup (500..599)))

\* C2: a logical call never sends more than max_retries + 1 requests.
C2_AttemptsBounded ==
    requests_sent <= client.max_retries + 1

C2_Witness ==
    /\ pc = "done"
    /\ client.max_retries >= 2
    /\ requests_sent = client.max_retries + 1
    /\ response.present /\ response.status = 500

\* C3: after k <= max_retries responses, all with retryable statuses, the
\* call goes on to attempt k+1 (it is in its backoff sleep, neither returned
\* nor aborted); and a call whose last response is a 2xx with a decodable
\* body, all earlier ones retried, made one attempt per response and
\* returned Ok.
C3_RetryThenSuccess ==
    /\ (response.present /\ retryable_only /\ requests_sent <= client.max_retries)
           => pc = "sleep"
    /\ (pc = "done" /\ resp_body.present /\ response.status \in 200..299
          /\ resp_body.readable /\ resp_body.text = OkResults)
           => (requests_sent = attempts + 1 /\ outcome.tag = "Ok")

\* C4: a call all of whose responses carry retryable statuses ends only
\* after exactly max_retries + 1 attempts, with the typed error of the
\* last response's status.
C4_ExhaustedBudget ==
    (pc \in {"done", "panicked"} /\ response.present /\ retryable_only) =>
        /\ requests_sent = client.max_retries + 1
        /\ outcome.tag = "Err"
        /\ outcome.error.kind =
              (CASE response.status = 409 -> "Conflict"
                 [] response.status = 429 -> "RateLimitExceeded"
                 [] response.status = 408 -> "Api"
                 [] OTHER -> "InternalServerError")

\* C5: a response with status 400, 401, 403, 404 or 422 ends the call at
\* once: no retry and no sleep follow it, so a first such response means
\* one attempt and no sleep at all, and the call returns the typed error of
\* that status (404 with {"message":"Collection not found"} gives
\* NotFound("Collection not found")), whatever budget remains.
C5_TerminalStatusEndsCall ==
    (response.present /\ response.status \in {400, 401, 403, 404, 422}) =>
        /\ pc \in {"read_body", "done"}
        /\ requests_sent = attempts + 1
        /\ Len(delays) = attempts
        /\ (attempts = 0 => requests_sent = 1 /\ delays = <<>>)
        /\ pc = "done" =>
             /\ outcome.tag = "Err"
             /\ outcome.error.kind =
                   (CASE response.status = 400 -> "BadRequest"
                      [] response.status = 401 -> "AuthenticationError"
                      [] response.status = 403 -> "PermissionDenied"
                      [] response.status = 404 -> "NotFound"
                      [] response.status = 422 -> "UnprocessableEntity")
             /\ (response.status = 404 /\ resp_body.readable
                   /\ resp_body.text = MsgNotFound)
                  => outcome.error = [kind |-> "NotFound",
                                      message |-> "Collection not found"]

C5_Witness ==
    /\ pc = "done"
    /\ client.max_retries >= 2
    /\ attempts = 0 /\ requests_sent = 1 /\ delays = <<>>
    /\ response.present /\ response.status = 404
    /\ outcome = [tag |-> "Err",
                  error |-> [kind |-> "NotFound", message |-> "Collection not found"]]

C7_ErrorMessagePrecedence ==
    (pc = "done" /\ resp_body.present /\ response.status \notin 200..299) =>
        /\ outcome.tag = "Err"
        /\ outcome.error.message =
              (IF ~resp_body.readable THEN "Unknown error"
               ELSE IF resp_body.text = MsgNotFound THEN "Collection not found"
               ELSE resp_body.text)
        /\ (response.status = 409 /\ resp_body.readable /\ resp_body.text = PlainText)
              => outcome.error = [kind |-> "Conflict", message |-> PlainText]

C7_Witness ==
    /\ pc = "done"
    /\ response.present /\ response.status = 409
    /\ resp_body.present /\ resp_body.readable /\ resp_body.text = PlainText
    /\ outcome = [tag |-> "Err", error |-> [kind |-> "Conflict", message |-> PlainText]]

\* C8: calculate_retry_delay gives 500, 1000, 2000, 4000, 8000, 8000 ms for
\* the attempt numbers 1 to 6.
C8_DelayTable ==
    (fn = "calculate_retry_delay" /\ arg.attempt \in 1..6) =>
        /\ ~ret.panic
        /\ ret.ms = <<500, 1000, 2000, 4000, 8000, 8000>>[arg.attempt]

C8_Witness ==
    /\ fn = "calculate_retry_delay"
    /\ arg.attempt = 5
    /\ ret = [panic |-> FALSE, ms |-> 8000]

\* C9: every retry from the fifth on sleeps exactly 8000 ms, and computing
\* its delay never aborts the call.
C9_CapFromFifthRetry ==
    /\ pc # "panicked"
    /\ \A n \in 1..Len(delays) : n >= 5 => delays[n] = 8000

\* C10: from_env, or build without an api_key, with ZEROENTROPY_API_KEY
\* absent fails with InvalidApiKey, having built no HTTP client and sent no
\* request.
C10_MissingKeyFailsBeforeNetwork ==
    (/\ build_result.via \in {"from_env", "build"}
     /\ ~build_result.explicit_key
     /\ env.ZEROENTROPY_API_KEY = EnvAbsent) =>
        /\ build_result.result = "InvalidApiKey"
        /\ ~client.present
        /\ http_clients = 0
        /\ calls = 0 /\ requests_sent = 0 /\ request = NoRequest

C10_Witness ==
    /\ build_result = [via |-> "from_env", explicit_key |-> FALSE,
                       result |-> "InvalidApiKey"]
    /\ env.ZEROENTROPY_API_KEY = EnvAbsent
    /\ http_clients = 0

\* C11: every constructed client holds a non-empty api_key.
C11_ApiKeyNonEmpty ==
    client.present => client.api_key # ""

\* C12: a 2xx response whose body does not deserialize makes the call fail
\* with an error whose kind is not the kind of a transport failure.
C12_DecodeErrorDistinct ==
    (pc = "done" /\ resp_body.present /\ response.status \in 200..299
       /\ resp_body.readable /\ resp_body.text # OkResults) =>
        /\ outcome.tag = "Err"
        /\ \A k \in TransportFailures : outcome.error.kind # transport_error(k).kind

\* C13: once send().await has failed, on whichever attempt, the call is
\* over with the transport error: no attempt and no sleep follows.
C13_TransportFailureEndsCall ==
    (~response.present /\ "error" \in DOMAIN response) =>
        /\ pc = "done"
        /\ outcome = [tag |-> "Err",
                      error |-> [kind |-> "Http", inner |-> response.error]]
        /\ requests_sent = attempts + 1
        /\ responses_seen = requests_sent
        /\ Len(delays) = attempts
        /\ sleeps_done = attempts

C13_Witness ==
    /\ pc = "done"
    /\ attempts = 1 /\ client.max_retries = 2
    /\ response = [present |-> FALSE, error |-> "timeout"]
    /\ outcome = [tag |-> "Err", error |-> [kind |-> "Http", inner |-> "timeout"]]

\* C14: a response with status 408, 409, 429 or 5xx is finalized, and its
\* error returned, only on attempt max_retries + 1; the returned error is
\* made of that last response: its status and the message of its body.
C14_RetryableSurfacedWhenExhausted ==
    /\ (response.present /\ response.status \in RetryableStatuses
          /\ pc \in {"read_body", "done"})
         => (attempts = client.max_retries /\ requests_sent = client.max_retries + 1)
    /\ (pc = "done" /\ outcome.tag = "Err"
          /\ \/ outcome.error.kind \in {"Conflict", "RateLimitExceeded",
                                        "InternalServerError"}
             \/ (outcome.error.kind = "Api" /\ outcome.error.status = 408))
         => /\ requests_sent = client.max_retries + 1
            /\ response.present /\ resp_body.present
            /\ outcome.error.kind =
                  (CASE response.status = 409 -> "Conflict"
                     [] response.status = 429 -> "RateLimitExceeded"
                     [] response.status = 408 -> "Api"
                     [] OTHER -> "InternalServerError")
            /\ outcome.error.message =
                  (IF ~resp_body.readable THEN "Unknown error"
                   ELSE IF resp_body.text = MsgNotFound THEN "Collection not found"
                   ELSE resp_body.text)

C14_Witness ==
    /\ pc = "done"
    /\ client.max_retries = 2 /\ requests_sent = 3
    /\ response.present /\ response.status = 429
    /\ outcome = [tag |-> "Err",
                  error |-> [kind |-> "RateLimitExceeded", message |-> PlainText]]

\* C15: at most one request of the call is in flight, and a request is
\* sent only when every earlier request has been answered and every
\* backoff sleep the call started, one per earlier attempt, has elapsed.
C15_AttemptsSequential ==
    /\ [](requests_sent - responses_seen \in {0, 1})
    /\ [][(requests_sent' = requests_sent + 1) =>
             /\ responses_seen = requests_sent
             /\ Len(delays) = requests_sent
             /\ sleeps_done = Len(delays)]_vars

C15_Witness ==
    /\ pc = "await_response"
    /\ requests_sent = 3 /\ responses_seen = 2
    /\ sleeps_done = 2 /\ delays = <<500, 1000>>

\* C17: the retry counter is 0 when a call starts, whatever the previous
\* call left in it, and it stays within 0..max_retries.
C17_CounterResetAndBounded ==
    /\ [](attempts >= 0 /\ attempts <= client.max_retries)
    /\ [][(calls' = calls + 1) => attempts' = 0]_vars

C17_Witness ==
    /\ calls = 2
    /\ pc = "sleep"
    /\ attempts = 1 /\ client.max_retries = 2

\* the configuration build is to produce from builder b in environment e
C18_ApiKey(b, e) ==
    IF b.api_key.some THEN b.api_key.v ELSE e.ZEROENTROPY_API_KEY.value
C18_BaseUrl(b, e) ==
    IF b.base_url.some THEN b.base_url.v
    ELSE IF e.ZEROENTROPY_BASE_URL.state = "set" THEN e.ZEROENTROPY_BASE_URL.value
    ELSE "https://api.zeroentropy.dev/v1"
C18_Fields(c, b, e) ==
    /\ c.present
    /\ c.api_key = C18_ApiKey(b, e)
    /\ c.base_url = C18_BaseUrl(b, e)
    /\ c.timeout = (IF b.timeout.some THEN b.timeout.v ELSE 60)
    /\ c.max_retries = (IF b.max_retries.some THEN b.max_retries.v ELSE 2)
C18_BuildStep ==
    build_result = NotBuilt /\ build_result'.via = "build"

\* C18 as claimed: build resolves every field by its precedence, and with
\* an explicit api_key it succeeds.
C18_BuildPrecedence ==
    [][C18_BuildStep =>
         /\ builder.api_key.some => build_result'.result = "Ok"
         /\ build_result'.result = "Ok" => C18_Fields(client', builder, env)]_vars

\* C18 as amended: build resolves every field by its precedence, and with
\* an explicit api_key it never fails for want of a key: it succeeds, or
\* returns the Http error of reqwest's own builder and no client.
C18_BuildPrecedenceUnlessHttp ==
    [][C18_BuildStep =>
         /\ builder.api_key.some => build_result'.result \in {"Ok", "Http"}
         /\ build_result'.result = "Http" => (~client'.present /\ http_clients' = 1)
         /\ build_result'.result = "Ok" => C18_Fields(client', builder, env)]_vars

C18_Witness ==
    /\ build_result = [via |-> "build", explicit_key |-> TRUE, result |-> "Ok"]
    /\ env = [ZEROENTROPY_API_KEY |-> EnvSet("env-key"),
              ZEROENTROPY_BASE_URL |-> EnvSet("https://staging.example/v1")]
    /\ client = [present |-> TRUE, api_key |-> "explicit-key",
                 base_url |-> "http://localhost:8080", timeout |-> 30,
                 max_retries |-> 2]

\* C20: once a client exists, no step (a facade created, a call entered,
\* a request, a retry, a result of any kind) changes its configuration.
C20_ConfigImmutable ==
    [][client.present => client' = client]_vars

C20_Witness ==
    /\ calls = 2
    /\ pc = "done"
    /\ attempts = 1
    /\ facade = [present |-> TRUE, resource |-> "models"]
    /\ client.present /\ client.base_url = "http://localhost:8080"

\* C16: with several calls in flight on one client, the attempts, the backoff
\* delays and the final outcome of each call are those of the same call run
\* alone on the responses it received itself: the retries of one call neither
\* consume nor extend the budget of another.
C16_Front(h) == SubSeq(h, 1, Len(h) - 1)

C16_Last(h) == h[Len(h)]

C16_Alone ==
    [attempts |-> 0, requests_sent |-> 0, delays |-> <<>>, outcome |-> NoOutcome,
     last |-> NoResponse]

C16_Step(max_retries, checks, st, ev) ==
    IF "failure" \in DOMAIN ev
    THEN [st EXCEPT !.requests_sent = @ + 1,
                    !.outcome = [tag |-> "Err", error |-> transport_error(ev.failure)]]
    ELSE IF "body" \in DOMAIN ev
    THEN [st EXCEPT !.outcome = handle_response(st.last.status, ev.body)]
    ELSE LET seen == [st EXCEPT !.requests_sent = @ + 1,
                                !.last = [present |-> TRUE, status |-> ev.status]]
             delay == calculate_retry_delay(st.attempts + 1, checks)
         IN  IF retry_condition(st.attempts, max_retries, ev.status)
             THEN IF delay.panic
                  THEN [seen EXCEPT !.attempts = @ + 1, !.outcome = [tag |-> "panic"]]
                  ELSE [seen EXCEPT !.attempts = @ + 1, !.delays = Append(@, delay.ms)]
             ELSE seen

RECURSIVE C16_RunAlone(_, _, _)
C16_RunAlone(max_retries, checks, h) ==
    IF h = <<>> THEN C16_Alone
    ELSE C16_Step(max_retries, checks,
                  C16_RunAlone(max_retries, checks, C16_Front(h)), C16_Last(h))

C16_CallsIndependent ==
    \A i \in TaskIds :
        LET t == tasks[i]
            alone == C16_RunAlone(client.max_retries, overflow_checks, t.hist)
        IN  /\ t.attempts = alone.attempts
            /\ t.attempts <= client.max_retries
            /\ t.delays = alone.delays
            /\ t.pc \in {"done", "panicked"} =>
                 /\ t.requests_sent = alone.requests_sent
                 /\ t.outcome = alone.outcome

C16_Witness ==
    /\ client.max_retries = MaxRetriesSmall
    /\ \A i \in TaskIds : tasks[i].pc = "done" /\ tasks[i].attempts = client.max_retries
    /\ tasks["t1"].outcome.tag = "Ok"
    /\ tasks["t2"].outcome.tag = "Err"

\* C19: two calls with the same configuration, endpoint and body that receive
\* the same sequence of responses make the same number of requests, wait the
\* same delays and end with the same outcome, however their steps interleave.
C19_SameInputs(i, j) ==
    /\ tasks[i].url = tasks[j].url
    /\ tasks[i].body = tasks[j].body
    /\ tasks[i].hist = tasks[j].hist

C19_Deterministic ==
    \A i \in TaskIds, j \in TaskIds :
        /\ tasks[i].pc \in {"done", "panicked"}
        /\ tasks[j].pc \in {"done", "panicked"}
        /\ C19_SameInputs(i, j)
        => /\ tasks[i].requests_sent = tasks[j].requests_sent
           /\ tasks[i].attempts = tasks[j].attempts
           /\ tasks[i].delays = tasks[j].delays
           /\ tasks[i].outcome = tasks[j].outcome

C19_Witness ==
    /\ tasks["t1"].pc = "done"
    /\ tasks["t2"].pc = "done"
    /\ C19_SameInputs("t1", "t2")
    /\ tasks["t1"].attempts >= 1
    /\ tasks["t1"].outcome.tag = "Err"
    /\ tasks["t1"].outcome.error.kind = "NotFound"

\* C21: the JSON body of every facade operation has exactly the keys of its
\* required fields and of the optional arguments that were supplied, each
\* once; an optional argument that is None is left out, never written as null.
C21_Required(op) ==
    CASE op \in {"collections.add", "collections.delete",
                 "documents.get_info_list"} -> {"collection_name"}
      [] op = "collections.get_list" -> {}
      [] op \in {"documents.add", "documents.add_text", "documents.add_pdf",
                 "documents.add_pdf_file"} -> {"collection_name", "path", "content"}
      [] op \in {"documents.update", "documents.delete", "documents.get_info"} ->
            {"collection_name", "path"}
      [] op = "documents.get_page_info" -> {"collection_name", "path", "page_number"}
      [] op \in {"queries.top_documents", "queries.top_pages",
                 "queries.top_snippets"} -> {"collection_name", "query", "k"}
      [] op = "models.rerank" -> {"query", "documents"}

C21_Keys(members) == {m.key : m \in members}

C21_OptionalOmitted ==
    (fn = "facade_request" /\ ret.posted) =>
        /\ C21_Keys(ret.body) =
              C21_Required(arg.op) \cup {p \in DOMAIN arg.supplied : arg.supplied[p]}
        /\ Cardinality(ret.body) = Cardinality(C21_Keys(ret.body))
        /\ \A m \in ret.body : m.value # "null"

C21_Witness ==
    /\ fn = "facade_request"
    /\ arg.op = "queries.top_documents"
    /\ ret.posted /\ ret.endpoint = "/queries/top-documents"
    /\ ret.body = {[key |-> "collection_name", value |-> "\"x\""],
                   [key |-> "query", value |-> "\"x\""],
                   [key |-> "k", value |-> "10"],
                   [key |-> "latency_mode", value |-> "\"low\""]}

C22_BothDirections ==
    {"DocumentContent", "MetadataValue", "Metadata", "LatencyMode", "IndexStatus"}

\* C22 as claimed: a value of any wire shape, request and response shapes
\* included, written to JSON and read back against its shape is the same
\* value.
C22_RoundTripEveryShape ==
    fn = "round_trip" => ret = [ok |-> TRUE, value |-> arg.value]

\* C22 as amended: a value of a shape that is both written and read
\* (DocumentContent, MetadataValue, Metadata, LatencyMode, IndexStatus) comes
\* back as the same variant with the same payload; the request shapes are
\* only written and the response shapes only read, so they have no round
\* trip.
C22_RoundTripWhereBothDerived ==
    fn = "round_trip" =>
        IF arg.shape \in C22_BothDirections
        THEN ret = [ok |-> TRUE, value |-> arg.value]
        ELSE ~ret.ok /\ ret.not_implemented \in {"Serialize", "Deserialize"}

C22_Witness ==
    /\ fn = "round_trip"
    /\ arg.shape = "MetadataValue"
    /\ arg.value = [variant |-> "Array", items |-> <<"a", "b">>]
    /\ ret = [ok |-> TRUE, value |-> [variant |-> "Array", items |-> <<"a", "b">>]]

\* C23: the sleep before the k-th retry of a call is delay(k), so the sleeps
\* of a call are 500, 1000, 2000, 4000, 8000, 8000, ... ms in that order; the
\* call does not sleep before its first attempt nor after the attempt whose
\* response is finalized.
C23_Delay(k) ==
    CASE k = 1 -> 500
      [] k = 2 -> 1000
      [] k = 3 -> 2000
      [] k = 4 -> 4000
      [] OTHER -> 8000

C23_SleepSequence ==
    /\ pc # "panicked"
    /\ \A k \in 1..Len(delays) : delays[k] = C23_Delay(k)
    /\ \A k \in 1..(Len(delays) - 1) : delays[k] <= delays[k + 1]
    /\ requests_sent = 0 => (delays = <<>> /\ sleeps_done = 0)
    /\ Len(delays) <= requests_sent
    /\ pc \in {"read_body", "done"} =>
         (Len(delays) = requests_sent - 1 /\ sleeps_done = Len(delays))

\* C24: every attempt of a call sends the same request: POST to base_url
\* followed by the endpoint path, Authorization: Bearer <api_key>,
\* Content-Type: application/json and the body given to the call; a retry
\* changes none of them.
C24_Request(e) ==
    [present |-> TRUE, method |-> "POST", url |-> client.base_url \o e,
     authorization |-> "Bearer " \o client.api_key,
     content_type |-> "application/json", body |-> body]

C24_IdenticalRequests ==
    /\ [](request.present =>
            \E e \in Endpoints :
                resource_of(e) = facade.resource /\ request = C24_Request(e))
    /\ [][(request.present /\ request'.present) => request' = request]_vars
    /\ [][(calls' = calls) => (body' = body /\ url' = url)]_vars

C24_Witness ==
    /\ pc = "await_response"
    /\ requests_sent = 3 /\ attempts = 2
    /\ request = [present |-> TRUE, method |-> "POST",
                  url |-> "https://api.zeroentropy.dev/v1/queries/top-documents",
                  authorization |-> "Bearer explicit-key",
                  content_type |-> "application/json",
                  body |-> "{\"collection_name\":\"c\"}"]

\* C25: when every network attempt and every backoff sleep completes, a call
\* that was started ends in Success (an Ok result) or Failure (an Err
\* result), for every sequence of responses and every budget, 0 included;
\* once it has ended it sends no further request.
C25_Terminal ==
    pc = "done" /\ outcome.tag \in {"Ok", "Err"}

C25_Terminates ==
    /\ (pc \in {"send", "await_response", "sleep", "read_body"}) ~> C25_Terminal
    /\ [][(C25_Terminal /\ calls' = calls) =>
             (requests_sent' = requests_sent /\ request' = request)]_vars

====
